---- MODULE Spec2Model ----
(***************************************************************************)
(* Position mapping of sites/kit.svelte.dev/src/lib/docs/server:           *)
(* the line index (get_line_offsets, position_at, offset_at), the line     *)
(* aligner (check_removed_lines), the source-map bridge, the diagnostics   *)
(* interceptor (decorate_ts) and the two revisions of the orchestrator,    *)
(* run_svelte_twoSlash (svelte-twoslash.js) and runSvelteTwoSlash          *)
(* (unnamed/part_000).                                                     *)
(*                                                                         *)
(* A text is a sequence of characters, a character a one-element string;   *)
(* CR and LF stand for "\r" and "\n".  Offsets, lines and characters are   *)
(* 0-based as in the source; sequences are 1-based, so the source's        *)
(* a[i] reads a[i + 1] here.                                               *)
(***************************************************************************)
EXTENDS Integers, Sequences, FiniteSets, TLC

VARIABLES
  pc,            \* position of the run inside the specification at hand
  text,          \* LineIndex: the text
  offset,        \* LineIndex: the offset handed to position_at
  line_offsets,  \* LineIndex: get_line_offsets(text)
  position,      \* LineIndex: position_at(offset, text, line_offsets)
  roundtrip,     \* LineIndex: offset_at(position, text, line_offsets)
  before,        \* LineAligner: first argument of check_removed_lines
  after,         \* LineAligner: second argument of check_removed_lines
  removed,       \* LineAligner: what check_removed_lines returned
  revision,      \* Orchestrator: which of the two revisions runs
  source,        \* Orchestrator: the original document
  code,          \* Orchestrator: what svelte2tsx returned, [code, map]
  generated,     \* Orchestrator, interceptor: the reference lines and code.code
  twoslash,      \* Orchestrator: what runTwoSlash returned, [code, errors, staticQuickInfos]
  locals,        \* Orchestrator: the constants of the run computed after runTwoSlash
  result,        \* Orchestrator: what the run returned, [code, errors, staticQuickInfos]
  history,       \* Orchestrator: per returned item, its position in the original document
  file,          \* interceptor: the language service's text of the file, or None
  diagnostics,   \* interceptor: what the real getSemanticDiagnostics returned
  filtered       \* interceptor: what the wrapped getSemanticDiagnostics returned

vars == <<pc, text, offset, line_offsets, position, roundtrip, before, after, removed,
          revision, source, code, generated, twoslash, locals, result, history,
          file, diagnostics, filtered>>

----------------------------------------------------------------------------
(* Bounds *)

\* most lines of the original document
MaxSrcLines == 2
\* most lines of the code svelte2tsx returns
MaxCodeLines == 2
\* most lines the engine's text of the code lacks
MaxDropped == 2
\* last line and character at which the engine reports a result
MaxRawLine == 4
MaxRawCharacter == 1
\* most diagnostics the real getSemanticDiagnostics returns
MaxDiagnostics == 2

\* longest text of the LineIndex specification, in characters
MaxLen == 4
\* most lines of a text handed to check_removed_lines
MaxAlignLines == 3

----------------------------------------------------------------------------
(* Characters and texts *)

CR == "\r"
LF == "\n"
None == "none"

Min(x, y) == IF x < y THEN x ELSE y
Max(x, y) == IF x > y THEN x ELSE y

\* all sequences over S of length 0..n
SeqsUpTo(S, n) == UNION {[1..k -> S] : k \in 0..n}

\* Array.prototype.join
RECURSIVE Join(_, _)
Join(lines, sep) ==
  IF lines = <<>> THEN <<>>
  ELSE IF Len(lines) = 1 THEN lines[1]
  ELSE lines[1] \o sep \o Join(Tail(lines), sep)

\* String.prototype.split(line_break_regex), line_break_regex = /\r\n?|\n/g:
\* cur is the line being read, i the 0-based offset of the next character
RECURSIVE split_from(_, _, _)
split_from(t, i, cur) ==
  IF i >= Len(t) THEN <<cur>>
  ELSE IF t[i + 1] = CR /\ i + 1 < Len(t) /\ t[i + 2] = LF
       THEN <<cur>> \o split_from(t, i + 2, <<>>)
  ELSE IF t[i + 1] = CR \/ t[i + 1] = LF
       THEN <<cur>> \o split_from(t, i + 1, <<>>)
  ELSE split_from(t, i + 1, Append(cur, t[i + 1]))

split(t) == split_from(t, 0, <<>>)

----------------------------------------------------------------------------
(* LineIndex *)

clamp(num, min, max) == Max(min, Min(max, num))

\* the scan of get_line_offsets with \r\n counted as two terminators
RECURSIVE get_line_offsets_loop_crlf_twice(_, _, _, _)
get_line_offsets_loop_crlf_twice(t, i, is_line_start, acc) ==
  IF i >= Len(t)
  THEN IF is_line_start /\ Len(t) > 0 THEN Append(acc, Len(t)) ELSE acc
  ELSE get_line_offsets_loop_crlf_twice(t, i + 1, t[i + 1] = CR \/ t[i + 1] = LF,
                                        IF is_line_start THEN Append(acc, i) ELSE acc)

\* the for loop of get_line_offsets and the push after it
RECURSIVE get_line_offsets_loop(_, _, _, _)
get_line_offsets_loop(t, i, is_line_start, acc) ==
  IF i >= Len(t)
  THEN IF is_line_start /\ Len(t) > 0 THEN Append(acc, Len(t)) ELSE acc
  ELSE LET pushed == IF is_line_start THEN Append(acc, i) ELSE acc
           ch == t[i + 1]
           skip == ch = CR /\ i + 1 < Len(t) /\ t[i + 2] = LF
       IN get_line_offsets_loop(t, IF skip THEN i + 2 ELSE i + 1,
                                ch = CR \/ ch = LF, pushed)

get_line_offsets(t) == get_line_offsets_loop(t, 0, TRUE, <<>>)

\* offset_at that forgets the start of the line
offset_at_without_line_start(pos, t, offsets) ==
  IF pos.line >= Len(offsets) THEN Len(t)
  ELSE IF pos.line < 0 THEN 0
  ELSE LET line_offset == offsets[pos.line + 1]
           next_line_offset == IF pos.line + 1 < Len(offsets)
                               THEN offsets[pos.line + 2] ELSE Len(t)
       IN clamp(next_line_offset, line_offset, pos.character)

offset_at(pos, t, offsets) ==
  IF pos.line >= Len(offsets) THEN Len(t)
  ELSE IF pos.line < 0 THEN 0
  ELSE LET line_offset == offsets[pos.line + 1]
           next_line_offset == IF pos.line + 1 < Len(offsets)
                               THEN offsets[pos.line + 2] ELSE Len(t)
       IN clamp(next_line_offset, line_offset, line_offset + pos.character)

\* the while loop of position_at; offsets[mid] is undefined at mid = length,
\* where both comparisons are false and the else branch runs
RECURSIVE position_at_search(_, _, _, _)
position_at_search(off, offsets, low, high) ==
  IF low > high
  THEN [line |-> low - 1, character |-> off - offsets[low]]
  ELSE LET mid == (low + high) \div 2 IN
       IF mid >= Len(offsets) THEN position_at_search(off, offsets, low, mid - 1)
       ELSE IF offsets[mid + 1] = off THEN [line |-> mid, character |-> 0]
       ELSE IF off > offsets[mid + 1] THEN position_at_search(off, offsets, mid + 1, high)
       ELSE position_at_search(off, offsets, low, mid - 1)

position_at(off, t, offsets) ==
  LET o == clamp(off, 0, Len(t)) IN
  IF Len(offsets) = 0 THEN [line |-> 0, character |-> o]
  ELSE position_at_search(o, offsets, 0, Len(offsets))

----------------------------------------------------------------------------
(* LineAligner *)

\* Array.prototype.indexOf(line, from): 0-based, -1 when absent
RECURSIVE indexOf(_, _, _)
indexOf(lines, line, from) ==
  IF from >= Len(lines) THEN -1
  ELSE IF lines[from + 1] = line THEN from
  ELSE indexOf(lines, line, from + 1)

\* the for loop of check_removed_lines: g2o is generated_to_original so far
RECURSIVE check_removed_lines_loop(_, _, _, _, _)
check_removed_lines_loop(svelte2tsx_lines, two_slash_result_lines, index, svelte2tsxIndex, g2o) ==
  IF index >= Len(two_slash_result_lines) THEN g2o
  ELSE LET correspond_index ==
             indexOf(svelte2tsx_lines, two_slash_result_lines[index + 1], svelte2tsxIndex)
       IN IF correspond_index < 0 THEN g2o
          ELSE check_removed_lines_loop(svelte2tsx_lines, two_slash_result_lines, index + 1,
                                        correspond_index,
                                        [i \in DOMAIN g2o \cup {index} |->
                                           IF i = index THEN correspond_index ELSE g2o[i]])

\* new Map(entries of generated_to_original, swapped): a later entry with the
\* same key replaces the earlier one, and entries come in increasing generated order
invert(g2o) ==
  [o \in {g2o[g] : g \in DOMAIN g2o} |->
     CHOOSE g \in DOMAIN g2o : g2o[g] = o /\ \A h \in DOMAIN g2o : g2o[h] = o => h <= g]

\* get_removed_lines: the indices without an original_to_generated entry, ascending
RECURSIVE get_removed_lines(_, _, _)
get_removed_lines(n, o2g, index) ==
  IF index >= n THEN <<>>
  ELSE (IF index \in DOMAIN o2g THEN <<>> ELSE <<index>>) \o get_removed_lines(n, o2g, index + 1)

check_removed_lines(svelte2tsx_code, two_slash_result) ==
  LET svelte2tsx_lines == split(svelte2tsx_code)
      g2o == check_removed_lines_loop(svelte2tsx_lines, split(two_slash_result), 0, 0, <<>>)
      o2g == invert(g2o)
  IN [generated_to_original |-> g2o,
      original_to_generated |-> o2g,
      removed_lines |-> get_removed_lines(Len(svelte2tsx_lines), o2g, 0)]

----------------------------------------------------------------------------
(* SourceMapBridge *)

\* SourceMapConsumer.originalPositionFor on a map that holds, per 1-based
\* generated line, at most one segment, at column 0: the segment's original
\* position, or nothing where the line has no segment
originalPositionFor(map, line, column) ==
  IF line \in DOMAIN map /\ map[line].source
  THEN [found |-> TRUE, line |-> map[line].line, column |-> map[line].column]
  ELSE [found |-> FALSE]

\* the query is outside what a source map addresses (1-based lines, columns
\* from 0); the consumer, which is not part of this repository, either
\* reports no mapping or throws a TypeError
consumer_rejects(pos) == pos.line + 1 <= 0 \/ pos.character < 0

\* create_source_mapper(rawSourceMap)(position)
map_to_original_position(map, pos) ==
  LET one_based_position == originalPositionFor(map, pos.line + 1, pos.character) IN
  [line |-> (IF one_based_position.found THEN one_based_position.line ELSE 0) - 1,
   character |-> IF one_based_position.found THEN one_based_position.column ELSE 0]

----------------------------------------------------------------------------
(* create_remove_line_mapper *)

map_to_generated_position(lines_map, pos) ==
  [line |-> IF pos.line \in DOMAIN lines_map.original_to_generated
            THEN lines_map.original_to_generated[pos.line] ELSE -1,
   character |-> pos.character]

remove_line_map_to_original_position(lines_map, pos) ==
  [line |-> IF pos.line \in DOMAIN lines_map.generated_to_original
            THEN lines_map.generated_to_original[pos.line] ELSE -1,
   character |-> pos.character]

----------------------------------------------------------------------------
(* Orchestrator *)

run_svelte_twoSlash == "run_svelte_twoSlash"
runSvelteTwoSlash == "runSvelteTwoSlash"
Revisions == {run_svelte_twoSlash, runSvelteTwoSlash}

\* a reference line `/// <reference path="<file>" />` is one character, the file
svelte_tsx_files == <<"svelte-shims.d.ts", "svelte-jsx.d.ts", "svelte-native-jsx.d.ts">>
prepend_lines == Len(svelte_tsx_files)

\* svelte_tsx_files.map((file) => `/// <reference path="${file}" />\n`).join('')
RECURSIVE reference_lines(_)
reference_lines(files) ==
  IF files = <<>> THEN <<>> ELSE <<files[1], LF>> \o reference_lines(Tail(files))

\* for (const path of svelteTsxFiles) prependLine(...): generated = line + '\n' + generated
RECURSIVE prependLine(_, _)
prependLine(files, gen) ==
  IF files = <<>> THEN gen ELSE prependLine(Tail(files), <<files[1], LF>> \o gen)

generated_of(rev, code_code) ==
  IF rev = run_svelte_twoSlash
  THEN reference_lines(svelte_tsx_files) \o code_code
  ELSE prependLine(svelte_tsx_files, code_code)

\* source_lines.filter((_, index) => !removed_lines.includes(index))
RECURSIVE filter_lines(_, _, _)
filter_lines(source_lines, removed_lines, index) ==
  IF index >= Len(source_lines) THEN <<>>
  ELSE (IF \E k \in DOMAIN removed_lines : removed_lines[k] = index
        THEN <<>> ELSE <<source_lines[index + 1]>>)
       \o filter_lines(source_lines, removed_lines, index + 1)

\* remove_lines_from_source that deletes the line after each removed one
remove_lines_from_source_off_by_one(src, removed_lines) ==
  IF Len(removed_lines) = 0 THEN src
  ELSE Join(filter_lines(split(src), [k \in DOMAIN removed_lines |-> removed_lines[k] + 1], 0),
            <<LF>>)

remove_lines_from_source(src, removed_lines) ==
  IF Len(removed_lines) = 0 THEN src
  ELSE Join(filter_lines(split(src), removed_lines, 0), <<LF>>)

\* map_two_slash_info(mapper, source, position, line_offsets), with
\* original_position = mapper(position) computed by the caller
map_two_slash_info(original_position, src, pos, offsets) ==
  [f \in DOMAIN pos \cup {"line", "character", "start"} |->
     CASE f = "line" -> original_position.line
       [] f = "character" -> original_position.character
       [] f = "start" -> offset_at(original_position, src, offsets)
       [] OTHER -> pos[f]]

\* the constants of one run: everything run_svelte_twoSlash computes between
\* runTwoSlash's return and the mapping of the results
mappers(rev, src, c, tw) ==
  LET remove_lines_map == check_removed_lines(generated_of(rev, c.code), tw.code)
      removed_lines == remove_lines_map.removed_lines
      source_removed_lines ==
        [k \in DOMAIN removed_lines |->
           map_to_original_position(c.map, [line |-> removed_lines[k] - prepend_lines,
                                            character |-> 0]).line]
      processed == remove_lines_from_source(src, source_removed_lines)
  IN [source |-> src,
      map |-> c.map,
      line_offsets |-> get_line_offsets(src),
      remove_lines_map |-> remove_lines_map,
      source_removed_lines |-> source_removed_lines,
      processed |-> processed,
      source_remove_line_map |-> check_removed_lines(src, processed),
      processed_line_offsets |-> get_line_offsets(processed)]

\* line_without_prepend_lines with the prepended lines subtracted before the
\* alignment lookup instead of after it
line_without_prepend_lines_subtract_first(m, info) ==
  remove_line_map_to_original_position(
    m.remove_lines_map, [line |-> info.line - prepend_lines, character |-> info.character]).line

\* line_before_line_removed - prepend_lines (run_svelte_twoSlash, every info;
\* runSvelteTwoSlash, quick infos)
line_without_prepend_lines(m, info) ==
  remove_line_map_to_original_position(
    m.remove_lines_map, [line |-> info.line, character |-> info.character]).line - prepend_lines

\* runSvelteTwoSlash, errors: prependLines is subtracted before the lookup and after it
error_line_without_prepend_lines(m, error) ==
  remove_line_map_to_original_position(
    m.remove_lines_map,
    [line |-> error.line - prepend_lines, character |-> error.character]).line - prepend_lines

\* the first map_two_slash_info call: into the original document
info_with_original_position(m, info, line) ==
  LET pos == [info EXCEPT !.line = line] IN
  map_two_slash_info(map_to_original_position(m.map, pos), m.source, pos, m.line_offsets)

\* the second map_two_slash_info call: into the processed document
info_with_processed_position(m, info) ==
  map_two_slash_info(map_to_generated_position(m.source_remove_line_map, info),
                     m.processed, info, m.processed_line_offsets)

\* function* map_info_to_result(infoList): each yielded item with the
\* original-document position it went through
RECURSIVE map_info_to_result(_, _)
map_info_to_result(m, infoList) ==
  IF infoList = <<>> THEN <<>>
  ELSE LET info == Head(infoList)
           original == info_with_original_position(m, info, line_without_prepend_lines(m, info))
           processed == info_with_processed_position(m, original)
       IN (IF info.line > 0 /\ info.character > 0
           THEN <<[item |-> processed, original |-> original]>> ELSE <<>>)
          \o map_info_to_result(m, Tail(infoList))

\* twoslash.staticQuickInfos.map(...).filter(...).map(...) of runSvelteTwoSlash
RECURSIVE mapStaticQuickInfos(_, _)
mapStaticQuickInfos(m, quickInfos) ==
  IF quickInfos = <<>> THEN <<>>
  ELSE LET quickInfo == Head(quickInfos)
           info == info_with_original_position(m, quickInfo,
                                               line_without_prepend_lines(m, quickInfo))
       IN (IF info.line > 0 /\ info.character > 0 /\ info.targetString # "render"
           THEN <<[item |-> info_with_processed_position(m, info), original |-> info]>>
           ELSE <<>>)
          \o mapStaticQuickInfos(m, Tail(quickInfos))

\* twoslash.errors.map(...).filter(...).map(...) of runSvelteTwoSlash
RECURSIVE mapErrors(_, _)
mapErrors(m, errors) ==
  IF errors = <<>> THEN <<>>
  ELSE LET error == Head(errors)
           info == info_with_original_position(m, error,
                                               error_line_without_prepend_lines(m, error))
       IN (IF info.line > 0 /\ info.character > 0
           THEN <<[item |-> info_with_processed_position(m, info), original |-> info]>>
           ELSE <<>>)
          \o mapErrors(m, Tail(errors))

NotRender(x) == x.item.targetString # "render"

Items(pairs) == [k \in DOMAIN pairs |-> pairs[k].item]
Originals(pairs) == [k \in DOMAIN pairs |-> pairs[k].original]

\* what the run returns, and beside it the original-document position of
\* every returned item
run(rev, m, tw) ==
  LET static_quick_infos ==
        IF rev = run_svelte_twoSlash
        THEN SelectSeq(map_info_to_result(m, tw.staticQuickInfos), NotRender)
        ELSE mapStaticQuickInfos(m, tw.staticQuickInfos)
      errors ==
        IF rev = run_svelte_twoSlash
        THEN map_info_to_result(m, tw.errors)
        ELSE mapErrors(m, tw.errors)
  IN [result |-> [staticQuickInfos |-> Items(static_quick_infos),
                  errors |-> Items(errors),
                  code |-> m.processed],
      history |-> [staticQuickInfos |-> Originals(static_quick_infos),
                   errors |-> Originals(errors)]]

\* every position the run hands to the source-map consumer
bridge_queries(rev, m, tw) ==
  LET removed_lines == m.remove_lines_map.removed_lines
  IN {[line |-> removed_lines[k] - prepend_lines, character |-> 0] : k \in DOMAIN removed_lines}
     \cup {[line |-> line_without_prepend_lines(m, tw.staticQuickInfos[k]),
            character |-> tw.staticQuickInfos[k].character] : k \in DOMAIN tw.staticQuickInfos}
     \cup {[line |-> IF rev = run_svelte_twoSlash
                     THEN line_without_prepend_lines(m, tw.errors[k])
                     ELSE error_line_without_prepend_lines(m, tw.errors[k]),
            character |-> tw.errors[k].character] : k \in DOMAIN tw.errors}

----------------------------------------------------------------------------
(* DiagnosticsInterceptor *)

\* the callback with line >= 0 for line > 0
keeps_diagnostic_from_line_zero(gen, generated_offset, map, lines_map, e) ==
  LET pos == position_at(e.start, gen, generated_offset)
      original_position ==
        map_to_original_position(map, remove_line_map_to_original_position(lines_map, pos))
  IN original_position.line >= 0 /\ original_position.character >= 0

\* the callback of errors.filter in the wrapped getSemanticDiagnostics
keeps_diagnostic(gen, generated_offset, map, lines_map, e) ==
  LET pos == position_at(e.start, gen, generated_offset)
      original_position ==
        map_to_original_position(map, remove_line_map_to_original_position(lines_map, pos))
  IN original_position.line > 0 /\ original_position.character >= 0

RECURSIVE filter_diagnostics(_, _, _, _, _)
filter_diagnostics(gen, generated_offset, map, lines_map, errors) ==
  IF errors = <<>> THEN <<>>
  ELSE (IF keeps_diagnostic(gen, generated_offset, map, lines_map, Head(errors))
        THEN <<Head(errors)>> ELSE <<>>)
       \o filter_diagnostics(gen, generated_offset, map, lines_map, Tail(errors))

\* ls.getSemanticDiagnostics = (filename) => ..., with generated_offset of
\* decorate_ts; f is ls.getProgram()?.getSourceFile(filename)
getSemanticDiagnostics(gen, generated_offset, map, errors, f) ==
  IF ~f.exists THEN errors
  ELSE CHOOSE kept \in {filter_diagnostics(gen, generated_offset, map, lines_map, errors) :
                            lines_map \in {check_removed_lines(gen, f.text)}} : TRUE

\* every position the wrapped getSemanticDiagnostics hands to the consumer
interceptor_queries(gen, generated_offset, errors, f) ==
  IF ~f.exists THEN {}
  ELSE UNION {{remove_line_map_to_original_position(
                 lines_map, position_at(errors[k].start, gen, generated_offset)) :
               k \in DOMAIN errors} :
              lines_map \in {check_removed_lines(gen, f.text)}}

----------------------------------------------------------------------------
(* Input domains *)

Chars == {"a", CR, LF}
Texts == SeqsUpTo(Chars, MaxLen)

AlignLines == {<<>>, <<"a">>, <<"b">>}
Terminators == {<<LF>>, <<CR, LF>>}
AlignTexts == {Join(ls, t) : ls \in SeqsUpTo(AlignLines, MaxAlignLines) \ {<<>>}, t \in Terminators}

\* documents and rewritten code: lines of one character.  The run reads a
\* line only to compare it with another line of the same text, so one text
\* stands for those that differ from it by renaming the lines: the first line
\* is "a"
Lines == {<<"a">>, <<"b">>}
LineSeqs(n) == {l \in SeqsUpTo(Lines, n) \ {<<>>} : l[1] = <<"a">>}
SourceTexts == {Join(ls, t) : ls \in LineSeqs(MaxSrcLines), t \in Terminators}
CodeTexts == {Join(ls, <<LF>>) : ls \in LineSeqs(MaxCodeLines)}

\* source maps of a code for a document of n lines: per line of the code no
\* segment, or a segment to a position of the document (1-based line)
MapEntries(n) ==
  {[source |-> FALSE]}
    \cup {[source |-> TRUE, line |-> l, column |-> col] : l \in 1..n, col \in 0..1}
SourceMaps(code_code, n) == [1..Len(split(code_code)) -> MapEntries(n)]

\* the lines of t without those at the 0-based indices in dropped
RECURSIVE KeptLines(_, _, _)
KeptLines(lines, dropped, index) ==
  IF index >= Len(lines) THEN <<>>
  ELSE (IF index \in dropped THEN <<>> ELSE <<lines[index + 1]>>)
       \o KeptLines(lines, dropped, index + 1)

WithoutLines(t, dropped) == Join(KeptLines(split(t), dropped, 0), <<LF>>)

SmallSubsets(S, n) == {D \in SUBSET S : Cardinality(D) <= n}

\* what the engine holds of the code it was given: some lines dropped
EngineTexts(gen) ==
  {gen} \cup {WithoutLines(gen, D) :
                D \in SmallSubsets(0..(Len(split(gen)) - 1), MaxDropped) \ {{}}}

\* id is the place of the result in the engine's list: a field the run passes through
RawErrors == [line : 0..MaxRawLine, character : 0..MaxRawCharacter, id : {1}]
RawQuickInfos ==
  [line : 0..MaxRawLine, character : 0..MaxRawCharacter, targetString : {"render", "x"},
   id : {1}]

\* what runTwoSlash reports: one result, a diagnostic or a quick info, or none
EngineResults ==
  {[errors |-> <<>>, staticQuickInfos |-> <<>>]}
    \cup {[errors |-> <<e>>, staticQuickInfos |-> <<>>] : e \in RawErrors}
    \cup {[errors |-> <<>>, staticQuickInfos |-> <<q>>] : q \in RawQuickInfos}

----------------------------------------------------------------------------
(* Specification of the LineIndex: one text, indexed, one offset converted  *)
(* to a position and back.                                                  *)

LineIndexVars == <<text, offset, line_offsets, position, roundtrip>>
AlignVars == <<before, after, removed>>
PipelineVars == <<revision, source, code, generated, twoslash, locals, result, history>>
DecorateVars == <<file, diagnostics, filtered>>

InitLineIndex ==
  /\ pc = "text"
  /\ text \in Texts
  /\ offset = None /\ line_offsets = None /\ position = None /\ roundtrip = None
  /\ before = None /\ after = None /\ removed = None
  /\ revision = None /\ source = None /\ code = None /\ generated = None
  /\ twoslash = None /\ locals = None /\ result = None /\ history = None
  /\ file = None /\ diagnostics = None /\ filtered = None

GetLineOffsets ==
  /\ pc = "text"
  /\ line_offsets' = get_line_offsets(text)
  /\ pc' = "indexed"
  /\ UNCHANGED <<text, offset, position, roundtrip, AlignVars, PipelineVars, DecorateVars>>

PositionAt ==
  /\ pc = "indexed"
  /\ \E o \in -1..(Len(text) + 1) :
       /\ offset' = o
       /\ position' = position_at(o, text, line_offsets)
  /\ pc' = "positioned"
  /\ UNCHANGED <<text, line_offsets, roundtrip, AlignVars, PipelineVars, DecorateVars>>

OffsetAt ==
  /\ pc = "positioned"
  /\ roundtrip' = offset_at(position, text, line_offsets)
  /\ pc' = "converted"
  /\ UNCHANGED <<text, offset, line_offsets, position, AlignVars, PipelineVars, DecorateVars>>

NextLineIndex == GetLineOffsets \/ PositionAt \/ OffsetAt

SpecLineIndex == InitLineIndex /\ [][NextLineIndex]_vars

----------------------------------------------------------------------------
(* Specification of the LineAligner: check_removed_lines on a pair of texts *)

InitAlign ==
  /\ pc = "pair"
  /\ before \in AlignTexts
  /\ after \in AlignTexts
  /\ removed = None
  /\ text = None /\ offset = None /\ line_offsets = None /\ position = None /\ roundtrip = None
  /\ revision = None /\ source = None /\ code = None /\ generated = None
  /\ twoslash = None /\ locals = None /\ result = None /\ history = None
  /\ file = None /\ diagnostics = None /\ filtered = None

CheckRemovedLines ==
  /\ pc = "pair"
  /\ removed' = check_removed_lines(before, after)
  /\ pc' = "aligned"
  /\ UNCHANGED <<before, after, LineIndexVars, PipelineVars, DecorateVars>>

NextAlign == CheckRemovedLines

SpecAlign == InitAlign /\ [][NextAlign]_vars

----------------------------------------------------------------------------
(* Specification of the orchestrator: one run of run_svelte_twoSlash or of   *)
(* runSvelteTwoSlash on one document.                                        *)

Init ==
  /\ pc = "source"
  /\ revision \in Revisions
  /\ source \in SourceTexts
  /\ code = None /\ generated = None /\ twoslash = None /\ locals = None
  /\ result = None /\ history = None
  /\ file = None /\ diagnostics = None /\ filtered = None
  /\ text = None /\ offset = None /\ line_offsets = None /\ position = None /\ roundtrip = None
  /\ before = None /\ after = None /\ removed = None

\* svelte2tsx returns; the reference lines are prepended
Rewrite ==
  /\ pc = "source"
  /\ \E c \in CodeTexts : \E m \in SourceMaps(c, Len(split(source))) :
       /\ code' = [code |-> c, map |-> m]
       /\ generated' = generated_of(revision, c)
  /\ pc' = "rewritten"
  /\ UNCHANGED <<revision, source, twoslash, locals, result, history,
                 LineIndexVars, AlignVars, DecorateVars>>

\* runTwoSlash returns and the run maps its results and returns
RunTwoSlash ==
  /\ pc = "rewritten"
  /\ \E t \in EngineTexts(generated) : \E r \in EngineResults :
     \E tw \in {[code |-> t, errors |-> r.errors, staticQuickInfos |-> r.staticQuickInfos]} :
     \E m \in {mappers(revision, source, code, tw)} :
     \E out \in {run(revision, m, tw)} :
       /\ twoslash' = tw
       /\ locals' = m
       /\ result' = out.result
       /\ history' = out.history
  /\ pc' = "returned"
  /\ UNCHANGED <<revision, source, code, generated, LineIndexVars, AlignVars, DecorateVars>>

\* runTwoSlash returns and the source-map consumer throws on a position the
\* run hands it
ConsumerThrows ==
  /\ pc = "rewritten"
  /\ ~ \A t \in EngineTexts(generated) : \A r \in EngineResults :
       \A tw \in {[code |-> t, errors |-> r.errors, staticQuickInfos |-> r.staticQuickInfos]} :
       \A m \in {mappers(revision, source, code, tw)} :
       \A q \in bridge_queries(revision, m, tw) : ~consumer_rejects(q)
  /\ pc' = "thrown"
  /\ UNCHANGED <<PipelineVars, LineIndexVars, AlignVars, DecorateVars>>

\* runTwoSlash throws
RunTwoSlashThrows ==
  /\ pc = "rewritten"
  /\ pc' = "thrown"
  /\ UNCHANGED <<PipelineVars, LineIndexVars, AlignVars, DecorateVars>>

Next == Rewrite \/ RunTwoSlash \/ ConsumerThrows \/ RunTwoSlashThrows

Spec == Init /\ [][Next]_vars

----------------------------------------------------------------------------
(* Specification of the interceptor: decorate_ts(generated, mapper) and one  *)
(* call of the wrapped getSemanticDiagnostics.                               *)

\* id is the place of the diagnostic in the engine's list
RawDiagnostics(gen) ==
  {[k \in DOMAIN starts |-> [start |-> starts[k], id |-> k]] :
     starts \in SeqsUpTo(0..(Len(gen) + 1), MaxDiagnostics)}

InitDecorate ==
  /\ pc = "decorated"
  /\ revision \in Revisions
  /\ \E c \in CodeTexts : \E m \in SourceMaps(c, MaxSrcLines) :
       /\ code = [code |-> c, map |-> m]
       /\ generated = generated_of(revision, c)
  /\ source = None /\ twoslash = None /\ locals = None /\ result = None /\ history = None
  /\ file = None /\ diagnostics = None /\ filtered = None
  /\ text = None /\ offset = None /\ line_offsets = None /\ position = None /\ roundtrip = None
  /\ before = None /\ after = None /\ removed = None

\* the wrapped getSemanticDiagnostics returns
GetSemanticDiagnostics ==
  /\ pc = "decorated"
  /\ \E generated_offset \in {get_line_offsets(generated)} :
     \E f \in {[exists |-> FALSE]} \cup {[exists |-> TRUE, text |-> t] : t \in EngineTexts(generated)} :
     \E d \in RawDiagnostics(generated) :
       /\ diagnostics' = d
       /\ file' = f
       /\ filtered' = getSemanticDiagnostics(generated, generated_offset, code.map, d, f)
  /\ pc' = "filtered"
  /\ UNCHANGED <<PipelineVars, LineIndexVars, AlignVars>>

\* the source-map consumer throws inside the wrapped getSemanticDiagnostics
GetSemanticDiagnosticsThrows ==
  /\ pc = "decorated"
  /\ ~ \A generated_offset \in {get_line_offsets(generated)} :
       \A f \in {[exists |-> TRUE, text |-> t] : t \in EngineTexts(generated)} :
       \A d \in RawDiagnostics(generated) :
         \A q \in interceptor_queries(generated, generated_offset, d, f) : ~consumer_rejects(q)
  /\ pc' = "thrown"
  /\ UNCHANGED <<DecorateVars, PipelineVars, LineIndexVars, AlignVars>>

NextDecorate == GetSemanticDiagnostics \/ GetSemanticDiagnosticsThrows

SpecDecorate == InitDecorate /\ [][NextDecorate]_vars

----------------------------------------------------------------------------
(* Claims about the LineIndex (SpecLineIndex) *)

\* the offsets that follow a line terminator of t: after a \n, and after a \r
\* that no \n follows
AfterTerminator(t) ==
  {i + 1 : i \in {j \in 0..(Len(t) - 1) :
                    \/ t[j + 1] = LF
                    \/ t[j + 1] = CR /\ ~(j + 1 < Len(t) /\ t[j + 2] = LF)}}

StrictlyIncreasing(s) == \A i, j \in DOMAIN s : i < j => s[i] < s[j]

\* C8: for every text and every offset in [0, length(text)],
\* offset_at(position_at(offset, text), text) = offset, with the table of
\* get_line_offsets(text).
C8_RoundTrip ==
  (pc = "converted" /\ offset \in 0..Len(text)) => roundtrip = offset

\* C8 witness: an offset between the \r and the \n of a \r\n, on a line that is
\* not the first, converted and converted back
C8_Witness ==
  /\ pc = "converted"
  /\ offset \in 1..(Len(text) - 1)
  /\ text[offset] = CR /\ text[offset + 1] = LF
  /\ position.line > 0 /\ position.character > 0
  /\ roundtrip = offset

\* C9: the table of get_line_offsets is strictly increasing, its entries lie in
\* [0, length(text)], and they are exactly offset 0 (for a non-empty text) and
\* the offset after each terminator, a \r\n being one terminator.
C9_LineOffsets ==
  pc # "text" =>
    /\ StrictlyIncreasing(line_offsets)
    /\ \A i \in DOMAIN line_offsets : line_offsets[i] \in 0..Len(text)
    /\ {line_offsets[i] : i \in DOMAIN line_offsets}
         = (IF Len(text) > 0 THEN {0} ELSE {}) \cup AfterTerminator(text)

\* C9 witness: a text with a \r\n and a lone terminator, indexed
C9_Witness ==
  /\ pc = "indexed"
  /\ \E i \in 1..(Len(text) - 1) : text[i] = CR /\ text[i + 1] = LF
  /\ Len(line_offsets) = 3

----------------------------------------------------------------------------
(* Claims about the LineAligner (SpecAlign) *)

Identity(f, n) == DOMAIN f = 0..(n - 1) /\ \A i \in DOMAIN f : f[i] = i

\* C2 as claimed: check_removed_lines(T, T) removes no line and both maps are
\* the identity over [0, lineCount(T)), for every text T.
C2_AlignIdentity ==
  (pc = "aligned" /\ before = after) =>
    /\ removed.removed_lines = <<>>
    /\ Identity(removed.generated_to_original, Len(split(before)))
    /\ Identity(removed.original_to_generated, Len(split(before)))

\* C3 as claimed: the mapped before-indices of two mapped after-lines i1 < i2
\* are strictly ordered.
C3_AlignStrictlyMonotonic ==
  pc = "aligned" =>
    \A i1, i2 \in DOMAIN removed.generated_to_original :
      i1 < i2 => removed.generated_to_original[i1] < removed.generated_to_original[i2]

----------------------------------------------------------------------------
(* Claims about the orchestrator (Spec) *)

\* the engine's result a returned item was made from
RawError(x) == twoslash.errors[x.id]
RawQuickInfo(x) == twoslash.staticQuickInfos[x.id]

\* the alignment of (generated, engine-returned code), looked up at a line
EngineAlignment == locals.remove_lines_map.generated_to_original
Aligned(line) == IF line \in DOMAIN EngineAlignment THEN EngineAlignment[line] ELSE -1

\* the source-map bridge at a 0-based position of code.code
Bridge(line, character) ==
  IF line + 1 \in DOMAIN code.map /\ code.map[line + 1].source
  THEN [line |-> code.map[line + 1].line - 1, character |-> code.map[line + 1].column]
  ELSE [line |-> -1, character |-> 0]

\* the consumer is handed only positions a source map addresses, so that
\* nothing in the run rests on what it does with the others
ConsumerAccepts ==
  \A q \in bridge_queries(revision, locals, twoslash) : ~consumer_rejects(q)

\* C1 as claimed: a diagnostic the engine reports at raw line 1, inside the
\* three prepended lines, is not among the returned errors.
C1_SyntheticRegionDropped ==
  pc = "returned" =>
    \A k \in DOMAIN result.errors : RawError(result.errors[k]).line # 1

\* C4 as claimed: no returned item went through a stage that produced a
\* negative line, neither on the way to the original document (the
\* engine-output alignment, the source-map bridge) nor in the final
\* original-to-processed alignment; stated for the runs in which the consumer
\* is handed only positions it addresses.
C4_NoSentinelReturned ==
  (pc = "returned" /\ ConsumerAccepts) =>
    /\ \A k \in DOMAIN result.errors :
         history.errors[k].line >= 0 /\ result.errors[k].line >= 0
    /\ \A k \in DOMAIN result.staticQuickInfos :
         history.staticQuickInfos[k].line >= 0 /\ result.staticQuickInfos[k].line >= 0

\* C5 as claimed: an item is returned only if its position in the original
\* document has line > 0 and character > 0; stated for the runs in which the
\* consumer is handed only positions it addresses.
C5_KeptOnMappedPosition ==
  (pc = "returned" /\ ConsumerAccepts) =>
    /\ \A k \in DOMAIN result.errors :
         history.errors[k].line > 0 /\ history.errors[k].character > 0
    /\ \A k \in DOMAIN result.staticQuickInfos :
         history.staticQuickInfos[k].line > 0 /\ history.staticQuickInfos[k].character > 0

\* the derived removed-line set: the lines the engine-output alignment reports
\* removed, minus the prepended lines, through the source-map bridge
DerivedRemovedLines ==
  LET lines == locals.remove_lines_map.removed_lines
  IN {Bridge(lines[k] - prepend_lines, 0).line : k \in DOMAIN lines}

SurvivingLines == KeptLines(split(source), DerivedRemovedLines, 0)

\* C7 as claimed: the lines of the returned code are the lines of the original
\* document without those in the derived removed-line set; stated for the runs
\* in which the consumer is handed only positions it addresses.
C7_ProcessedLines ==
  (pc = "returned" /\ ConsumerAccepts) => split(result.code) = SurvivingLines

\* C7 amended: the same while a line survives; when every line is deleted the
\* returned code is the empty text, which is one empty line and not none.
C7_ProcessedLinesOrEmpty ==
  pc = "returned" =>
    IF SurvivingLines = <<>> THEN result.code = <<>>
    ELSE split(result.code) = SurvivingLines

\* C7 witness: the consumer is handed only positions it addresses, the set
\* holds a line of the document and a negative index, and another line survives
C7_Witness ==
  /\ pc = "returned" /\ ConsumerAccepts
  /\ \E l \in DerivedRemovedLines : l < 0
  /\ \E l \in DerivedRemovedLines : l \in 0..(Len(split(source)) - 1)
  /\ SurvivingLines # <<>>
  /\ Len(split(result.code)) = Len(split(source)) - 1

\* the position in the original document and the offset there that a chain of
\* stages ending in line gives a result reported at character
InOriginal(line, character) ==
  LET p == Bridge(line, character) IN
  [line |-> p.line, character |-> p.character,
   start |-> offset_at(p, source, get_line_offsets(source))]

At(h) == [line |-> h.line, character |-> h.character, start |-> h.start]

DeletedLines ==
  {locals.source_removed_lines[k] : k \in DOMAIN locals.source_removed_lines}
    \cap 0..(Len(split(source)) - 1)

\* the line of processed at which the surviving line L of the document sits
ProcessedLine(L) == L - Cardinality({d \in DeletedLines : d < L})

\* C11 as claimed: the re-alignment of (source, processed) reports exactly the
\* deleted lines as removed and maps every surviving line L of the document to
\* processed line L minus the number of deleted lines below L; stated for the
\* runs in which the consumer is handed only positions it addresses.
C11_Realignment ==
  (pc = "returned" /\ ConsumerAccepts) =>
    \A map \in {locals.source_remove_line_map} :
      /\ {map.removed_lines[k] : k \in DOMAIN map.removed_lines} = DeletedLines
      /\ \A L \in (0..(Len(split(source)) - 1)) \ DeletedLines :
           /\ L \in DOMAIN map.original_to_generated
           /\ map.original_to_generated[L] = ProcessedLine(L)

----------------------------------------------------------------------------
(* Claims about the interceptor (SpecDecorate) *)

\* the diagnostic's position in generated, through the alignment of
\* (generated, the language service's text) and the bridge, has line > 0 and character >= 0
MapsIntoDocument(e, g2o) ==
  LET pos == position_at(e.start, generated, get_line_offsets(generated))
  IN /\ pos.line \in DOMAIN g2o
     /\ Bridge(g2o[pos.line], pos.character).line > 0
     /\ Bridge(g2o[pos.line], pos.character).character >= 0

\* C6: with a source file, the wrapped getSemanticDiagnostics returns, in the
\* engine's order, exactly the diagnostics whose position maps into the
\* document; one whose alignment or bridge lookup is unmapped is not returned.
C6_InterceptorFilter ==
  (pc = "filtered" /\ file.exists) =>
    /\ \A k \in DOMAIN filtered : filtered[k] = diagnostics[filtered[k].id]
    /\ \A j, k \in DOMAIN filtered : j < k => filtered[j].id < filtered[k].id
    /\ \A g2o \in {check_removed_lines(generated, file.text).generated_to_original} :
       \A k \in DOMAIN diagnostics :
         (\E j \in DOMAIN filtered : filtered[j].id = k)
           <=> MapsIntoDocument(diagnostics[k], g2o)

\* C6 witness: the consumer is handed only positions it addresses; of two
\* diagnostics one is returned and the other, whose bridge lookup is unmapped,
\* is not
C6_Witness ==
  /\ pc = "filtered" /\ file.exists
  /\ Len(diagnostics) = 2 /\ Len(filtered) = 1
  /\ \A q \in interceptor_queries(generated, get_line_offsets(generated), diagnostics, file) :
       ~consumer_rejects(q)
  /\ \E k \in DOMAIN diagnostics :
       \E pos \in {position_at(diagnostics[k].start, generated, get_line_offsets(generated))} :
         Bridge(check_removed_lines(generated, file.text).generated_to_original[pos.line],
                pos.character).line = -1

====
